---- MODULE Spec2Model ----
(***************************************************************************)
(* cobot-cli: the agent orchestration loop (core/agent.ts), the tool       *)
(* executor (core/tool-executor.ts), the safety validators                 *)
(* (tools/validators.ts), the tool classification (tools/schemas) and the  *)
(* registry dispatch (tools/registry.ts).                                  *)
(*                                                                         *)
(* JavaScript runs one handler at a time: a handler runs from the event    *)
(* that resumes it (a call of a public method, the settling of an awaited  *)
(* promise) to its next await of an outside event.  Each action below is   *)
(* one such handler, whole.  The awaited outside events are: the           *)
(* completion request, the approval callback, the tool implementation,     *)
(* the onError decision and the onMaxIterations decision.                  *)
(***************************************************************************)
EXTENDS Naturals, Sequences, FiniteSets

(***************************************************************************)
(* Bounds of the explored environment.                                     *)
(***************************************************************************)
\* the largest tool-call batch one completion response carries
MaxBatch == 2
\* tool calls the endpoint issues in one session
MaxToolCalls == 2
\* the log length up to which the caller starts a chat or interrupts
MaxLog == 5
\* completion requests that fail in one session (outside the long-run scenario)
MaxFailures == 1
\* tool calls the endpoint issues in the session scenario
SessionToolCalls == 1
\* tool-call responses the endpoint gives beyond the iteration limit in the
\* scenario of the turn that only calls tools
TurnsPastLimit == 3

(***************************************************************************)
(* Program constants.                                                      *)
(***************************************************************************)
\* agent.ts: const maxToolIterations = 50
maxToolIterations == 50

(***************************************************************************)
(* Tool names.  A name is the sequence of its dot-separated segments, so   *)
(* that 'repo_browser.delete_file' and 'delete_file' are different names   *)
(* and stripping the prefix is an operation on the name.                   *)
(***************************************************************************)
Name(fn) == <<fn>>
Prefixed(fn) == <<"repo_browser", fn>>

SAFE_TOOLS ==
  { Name("read_file"), Name("list_files"), Name("search_files"),
    Name("create_tasks"), Name("update_tasks"), Name("open_file") }

APPROVAL_REQUIRED_TOOLS ==
  { Name("create_file"), Name("edit_file"), Name("create_web_page"),
    Name("convert_document"), Name("process_image"),
    Name("batch_process_images"), Name("process_media"),
    Name("get_clickhouse_schema"), Name("execute_clickhouse_query") }

DANGEROUS_TOOLS == { Name("delete_file"), Name("execute_command") }

\* the keys of TOOL_REGISTRY
TOOL_REGISTRY == SAFE_TOOLS \cup APPROVAL_REQUIRED_TOOLS \cup DANGEROUS_TOOLS

\* variant: the name is used as the model sent it
StripPrefix_Kept(name) == name

\* toolName.startsWith('repo_browser.') ? toolName.substring(...) : toolName
StripPrefix(name) ==
  IF Len(name) > 1 /\ Head(name) = "repo_browser" THEN Tail(name) ELSE name

(***************************************************************************)
(* Paths.  path.resolve maps a relative path to its absolute form; two     *)
(* spellings of one file resolve to the same absolute path.                *)
(***************************************************************************)
NoPath == ""

Resolve(p) ==
  CASE p = "a.txt"   -> "/cwd/a.txt"
    [] p = "./a.txt" -> "/cwd/a.txt"
    [] p = "b.txt"   -> "/cwd/b.txt"
    [] OTHER         -> "/cwd"

\* variant: the validator always lets the edit through
hasFileBeenReadBeforeEdit_FailOpen(tracker, filePath) == TRUE

\* validators.ts hasFileBeenReadBeforeEdit: fail-open without a tracker
hasFileBeenReadBeforeEdit(tracker, filePath) ==
  IF ~tracker.wired THEN TRUE ELSE Resolve(filePath) \in tracker.paths

(***************************************************************************)
(* Results, events, messages.                                              *)
(***************************************************************************)
Result(success, userRejected, error) ==
  [success |-> success, userRejected |-> userRejected, error |-> error]

NoResult == Result(FALSE, FALSE, "none")
NoName == <<>>

\* one observable step of a handler: a callback invoked, a request issued,
\* the registry entered, a message appended, the return of chat()
\* ('carries' is filled for a completion response only: what it came with)
Ev(e, name, arg, result) ==
  [e |-> e, name |-> name, arg |-> arg, result |-> result, carries |-> {}]
Ev0(e) == Ev(e, NoName, "", NoResult)

Msg(role, content, tool_calls, tool_call_id, result) ==
  [role |-> role, content |-> content, tool_calls |-> tool_calls,
   tool_call_id |-> tool_call_id, result |-> result]

SystemMsg(content) == Msg("system", content, <<>>, 0, NoResult)
UserMsg == Msg("user", "input", <<>>, 0, NoResult)

\* buildDefaultSystemMessage: the default prompt names the model
buildDefaultSystemMessage(m) ==
  CASE m = "m1" -> "default prompt powered by m1"
    [] m = "m2" -> "default prompt powered by m2"

Models == { "m1", "m2" }

(***************************************************************************)
(* The environment's inputs.                                               *)
(***************************************************************************)
\* function.arguments: a JSON blob that parses or is truncated
Args(wellFormed, file_path) ==
  [wellFormed |-> wellFormed, isNull |-> FALSE, file_path |-> file_path]

\* the blob 'null': JSON.parse succeeds and toolArguments is null
NullArgs == [wellFormed |-> TRUE, isNull |-> TRUE, file_path |-> NoPath]

\* the tool calls the endpoint may issue (name, arguments)
ToolCallMenu ==
  { [name |-> Name("read_file"),          arguments |-> Args(TRUE, "a.txt")],
    [name |-> Name("edit_file"),          arguments |-> Args(TRUE, "./a.txt")],
    [name |-> Name("create_file"),        arguments |-> Args(TRUE, "b.txt")],
    [name |-> Name("execute_command"),    arguments |-> Args(TRUE, NoPath)],
    [name |-> Prefixed("delete_file"),    arguments |-> Args(TRUE, "b.txt")],
    [name |-> Name("browse"),             arguments |-> Args(TRUE, NoPath)],
    [name |-> Name("create_file"),        arguments |-> Args(FALSE, NoPath)] }

ToolCall(id, c) == [id |-> id, name |-> c.name, arguments |-> c.arguments]

\* batches of n menu entries with fresh consecutive ids first+1 .. first+n
Batches(first, n, menu) ==
  { [k \in 1..n |-> ToolCall(first + k, f[k])] : f \in [1..n -> menu] }

\* a shorter menu for the session and long-turn scenarios: one safe tool, one
\* dangerous tool
ShortMenu ==
  { [name |-> Name("read_file"),          arguments |-> Args(TRUE, "a.txt")],
    [name |-> Name("execute_command"),    arguments |-> Args(TRUE, NoPath)] }

\* message.content of a final answer, and of a response that calls tools
\* (where it is often empty)
AnswerContents == { "", "text" }
ToolTurnContents == { "", "text" }

\* what the approval callback may resolve to
ApprovalAnswers ==
  { [approved |-> a, autoApproveSession |-> s] : a \in BOOLEAN, s \in BOOLEAN }

\* the callbacks of the caller that throw (or reject) when they are invoked;
\* a callback that throws does so on every call, the approval callback may
\* also resolve
NoFaults == {}
Faults == SUBSET { "onToolStart", "onToolEnd", "onToolApproval" }

\* which callbacks setToolCallbacks has wired
Wired(b) ==
  [onToolStart |-> b, onToolEnd |-> b, onToolApproval |-> b, onThinkingText |-> b,
   onFinalMessage |-> b, onMaxIterations |-> b, onApiUsage |-> b, onError |-> b]

\* useAgent wires every callback; a caller without a user to ask wires the
\* notifications and leaves the decision callbacks out
CallbackConfigs ==
  { Wired(TRUE),
    [Wired(TRUE) EXCEPT !.onToolApproval = FALSE, !.onError = FALSE,
                        !.onMaxIterations = FALSE] }

(***************************************************************************)
(* State.                                                                  *)
(***************************************************************************)
\* tasks.ts: 'let activeTaskSession = null', and a session that holds tasks
NoSession == [exists |-> FALSE, tasks |-> << >>]
\* no call of createTasks or updateTasks has returned yet
NoTaskResult == [tool |-> "", success |-> FALSE, error |-> ""]

VARIABLES
  \* Agent fields
  messages, sessionAutoApprove, isInterrupted, currentAbortController, model,
  client, callbacks,
  \* chat(): where it is suspended, and its locals
  pc, currentIteration, tool_calls, idx,
  \* executeToolCall(): its locals while it is suspended
  toolName, options, approvalResult,
  \* validators.ts / registry.ts: the read tracker
  sessionReadFilesTracker,
  \* the environment: where the credential is, the bounds of this run, and
  \* what the run has used of them
  credential, scenario, issued, failures,
  \* what the last handler did, in order
  fired,
  \* history: the user has answered a prompt for an approval-required tool with
  \* 'approve, and auto-approve for the session' and has not switched it off since
  granted,
  \* useAgent: the isProcessing state of the hook that calls chat()
  isProcessing,
  \* useAgent: the hook's own copy of the auto-approve state, which the UI shows
  isSessionAutoApprovalEnabled,
  \* tasks.ts: the module-level task session, and what the last call of
  \* createTasks or updateTasks returned
  activeTaskSession, taskResult

vars ==
  << messages, sessionAutoApprove, isInterrupted, currentAbortController, model,
     client, callbacks, pc, currentIteration, tool_calls, idx, toolName, options,
     approvalResult, sessionReadFilesTracker, credential, scenario, issued, failures,
     fired, granted, isProcessing, isSessionAutoApprovalEnabled,
     activeTaskSession, taskResult >>

\* the state as one record, for the handlers written as functions of it
Cur ==
  [messages |-> messages, sessionAutoApprove |-> sessionAutoApprove,
   isInterrupted |-> isInterrupted,
   currentAbortController |-> currentAbortController, model |-> model,
   client |-> client, callbacks |-> callbacks, pc |-> pc,
   currentIteration |-> currentIteration, tool_calls |-> tool_calls, idx |-> idx,
   toolName |-> toolName, options |-> options, approvalResult |-> approvalResult,
   sessionReadFilesTracker |-> sessionReadFilesTracker, credential |-> credential,
   scenario |-> scenario, issued |-> issued, failures |-> failures, fired |-> fired,
   granted |-> granted, isProcessing |-> isProcessing,
   isSessionAutoApprovalEnabled |-> isSessionAutoApprovalEnabled,
   activeTaskSession |-> activeTaskSession, taskResult |-> taskResult]

Becomes(t) ==
  /\ messages' = t.messages
  /\ sessionAutoApprove' = t.sessionAutoApprove
  /\ isInterrupted' = t.isInterrupted
  /\ currentAbortController' = t.currentAbortController
  /\ model' = t.model
  /\ client' = t.client
  /\ callbacks' = t.callbacks
  /\ pc' = t.pc
  /\ currentIteration' = t.currentIteration
  /\ tool_calls' = t.tool_calls
  /\ idx' = t.idx
  /\ toolName' = t.toolName
  /\ options' = t.options
  /\ approvalResult' = t.approvalResult
  /\ sessionReadFilesTracker' = t.sessionReadFilesTracker
  /\ credential' = t.credential
  /\ scenario' = t.scenario
  /\ issued' = t.issued
  /\ failures' = t.failures
  /\ fired' = t.fired
  /\ granted' = t.granted
  /\ isProcessing' = t.isProcessing
  /\ isSessionAutoApprovalEnabled' = t.isSessionAutoApprovalEnabled
  /\ activeTaskSession' = t.activeTaskSession
  /\ taskResult' = t.taskResult

NoOptions == [sessionAutoApprove |-> FALSE, isInterrupted |-> FALSE]
NoApproval == [approved |-> FALSE, autoApproveSession |-> FALSE]

\* the handler starts: the event that resumed it is the first thing it records
Begin(s, e, arg) == [s EXCEPT !.fired = << Ev(e, NoName, arg, NoResult) >>]
Emit(s, ev) == [s EXCEPT !.fired = Append(@, ev)]
\* the completion request has resolved with response r
Received(s, r) ==
  [s EXCEPT !.fired =
     << [Ev("response", NoName, r.content, NoResult)
           EXCEPT !.carries = (IF r.has_tool_calls THEN { "tool_calls" } ELSE {})
                                \cup (IF r.usage THEN { "usage" } ELSE {})] >>]
\* a callback is invoked only when it is wired
Call(s, wired, ev) == IF wired THEN Emit(s, ev) ELSE s
\* variant: the newest message is put in front of the log
Push_InFront(s, m) ==
  [Emit(s, Ev("push", NoName, m.role, m.result)) EXCEPT !.messages = << m >> \o @]

\* this.messages.push(m)
Push(s, m) ==
  [Emit(s, Ev("push", NoName, m.role, m.result)) EXCEPT !.messages = Append(@, m)]

\* executeToolCall has returned: its locals are gone
Forget(s) ==
  [s EXCEPT !.toolName = NoName, !.options = NoOptions, !.approvalResult = NoApproval]

\* chat() returns (or throws) at the statement named by 'at': its locals are
\* gone; a sendMessageToAgent that awaited it runs its finally block
Leave(s, how, at) ==
  [Emit(Forget(s), Ev(how, NoName, at, NoResult)) EXCEPT !.pc = "idle", !.currentIteration = 0,
                                    !.tool_calls = << >>, !.idx = 0,
                                    !.isProcessing = FALSE]

(***************************************************************************)
(* tool-executor.ts: the approval policy.                                  *)
(***************************************************************************)
\* const isDangerous = DANGEROUS_TOOLS.includes(toolName)
IsDangerous(name) == name \in DANGEROUS_TOOLS

\* variant: every tool is treated as approval-required
RequiresApproval_Everything(name) == TRUE

\* const requiresApproval = APPROVAL_REQUIRED_TOOLS.includes(toolName)
RequiresApproval(name) == name \in APPROVAL_REQUIRED_TOOLS

\* variant: the gate asks only about the approval-required class
NeedsApproval_OnlyApprovalRequired(name) == name \in APPROVAL_REQUIRED_TOOLS

\* const needsApproval = isDangerous || requiresApproval
NeedsApproval(name) == IsDangerous(name) \/ RequiresApproval(name)

\* variant: session auto-approve covers every tool
CanAutoApprove_AnyTool(name, auto) == auto

\* const canAutoApprove = requiresApproval && !isDangerous && options.sessionAutoApprove
CanAutoApprove(name, auto) == RequiresApproval(name) /\ ~IsDangerous(name) /\ auto

\* the options object Agent.chat builds for one executeToolCall: copies of the
\* agent's two flags, taken when the call starts
MakeOptions(s) ==
  [sessionAutoApprove |-> s.sessionAutoApprove, isInterrupted |-> s.isInterrupted]

\* 'if (options.isInterrupted)' after the approval callback has resolved
InterruptedAfterApproval(s) == s.options.isInterrupted

\* 'options.sessionAutoApprove = true': the flag of the options object
EnableSessionAutoApproval(s) == [s EXCEPT !.options.sessionAutoApprove = TRUE]

InterruptedResult == Result(FALSE, TRUE, "Tool execution interrupted by user")
CanceledResult == Result(FALSE, TRUE, "Tool execution canceled by user")
TruncatedResult == Result(FALSE, FALSE, "Tool arguments truncated")
ExecutionErrorResult == Result(FALSE, FALSE, "Tool execution error")
ReadBeforeEditResult == Result(FALSE, FALSE, "File must be read before editing")
UnknownToolResult == Result(FALSE, FALSE, "Error: Unknown tool")
NotImplementedResult == Result(FALSE, FALSE, "Error: Tool not implemented")
InvalidArgumentsResult == Result(FALSE, FALSE, "Error: Invalid tool arguments")
UnexpectedErrorResult == Result(FALSE, FALSE, "Error: Unexpected tool error")

\* property names every object literal inherits from Object.prototype
ObjectPrototype == { Name("toString"), Name("constructor") }

\* 'toolName in TOOL_REGISTRY': own keys and inherited ones
In(name, registry) == name \in registry \/ name \in ObjectPrototype

\* JSON.stringify(result), as far as the log keeps it: the two flags, and
\* whether there is an error text
Stringify(result) ==
  Result(result.success, result.userRejected, IF result.error = "none" THEN "none" ELSE "error")

\* variant: the tool message does not carry the id of its call
ToolMessage_WithoutId(call, result) == Msg("tool", "result", << >>, 0, Stringify(result))

\* the tool message chat() appends for a call's result
ToolMessage(call, result) == Msg("tool", "result", << >>, call.id, Stringify(result))

\* variant: a rejected tool does not end the turn
StopsTurn_Never(result) == FALSE

\* variant: every failed call ends the turn
StopsTurn_AnyFailure(result) == ~result.success

\* 'if (result.userRejected)': the rejection ends the batch and the turn
StopsTurn(result) == result.userRejected

(***************************************************************************)
(* Agent.chat and executeToolCall, as functions from the state in which a  *)
(* handler is resumed to the state at its next await (or at its return).   *)
(***************************************************************************)
\* variant: the loop has no iteration limit
LoopTop_Unlimited(s) ==
  IF s.isInterrupted
  THEN Leave([s EXCEPT !.currentAbortController = "null"], "return", "interrupted")
  ELSE [Emit(s, Ev0("request")) EXCEPT !.currentAbortController = "pending",
                                       !.pc = "awaitCompletion"]

\* variant: the iteration loop does not look at the interruption flag
LoopTop_Unchecked(s) ==
  IF s.currentIteration < maxToolIterations
  THEN [Emit(s, Ev0("request")) EXCEPT !.currentAbortController = "pending",
                                       !.pc = "awaitCompletion"]
  ELSE IF s.callbacks.onMaxIterations
       THEN [Emit(s, Ev0("onMaxIterations")) EXCEPT !.pc = "awaitMaxIterations"]
       ELSE Leave(s, "return", "maxIterations")

\* the top of the iteration loop: the interruption check, then the request;
\* past the limit, the onMaxIterations decision
LoopTop(s) ==
  IF s.currentIteration < maxToolIterations
  THEN IF s.isInterrupted
       THEN Leave([s EXCEPT !.currentAbortController = "null"], "return", "interrupted")
       ELSE [Emit(s, Ev0("request")) EXCEPT !.currentAbortController = "pending",
                                            !.pc = "awaitCompletion"]
  ELSE IF s.callbacks.onMaxIterations
       THEN [Emit(s, Ev0("onMaxIterations")) EXCEPT !.pc = "awaitMaxIterations"]
       ELSE Leave(s, "return", "maxIterations")

RECURSIVE ToolLoop(_)

\* chat() after executeToolCall has returned: the tool message, then either
\* the end of the turn (user rejection) or the next call of the batch
ToolReturned(s, result) ==
  LET call == s.tool_calls[s.idx]
      s1 == Push(Forget(s), ToolMessage(call, result))
  IN  IF StopsTurn(result)
      THEN Leave(Push(s1, SystemMsg("The user rejected the tool execution")),
                 "return", "rejected")
      ELSE ToolLoop([s1 EXCEPT !.idx = @ + 1])

\* the callback of this name is wired and throws
Throws(s, callback) == s.callbacks[callback] /\ callback \in s.scenario.faulty

\* variant: executeToolCall has no catch block of its own: the exception
\* reaches the catch block of chat() like a failed completion request
Caught_ByChat(s) ==
  LET s1 == Forget([s EXCEPT !.currentAbortController = "null"])
  IN  IF s.callbacks.onError
      THEN [Emit(s1, Ev0("onError")) EXCEPT !.pc = "awaitError"]
      ELSE Leave(Push(s1, SystemMsg("Previous API request failed")), "return", "final")

\* the catch block of executeToolCall: whatever was thrown becomes a result
Caught(s) == ToolReturned(s, ExecutionErrorResult)

\* onToolEnd(toolName, result); return result
Finish(s, result) ==
  LET s1 == Call(s, s.callbacks.onToolEnd, Ev("onToolEnd", s.toolName, "", result))
  IN  IF Throws(s, "onToolEnd") THEN Caught(s1) ELSE ToolReturned(s1, result)

\* executeTool(toolName, toolArguments): an unknown name is answered at once,
\* a registered tool runs (and is awaited)
Dispatch(s) ==
  LET toolArgs == s.tool_calls[s.idx].arguments
      s1 == Emit(s, Ev("executeTool", s.toolName,
                       IF toolArgs.isNull THEN "null" ELSE "", NoResult))
  IN  IF ~In(s.toolName, TOOL_REGISTRY)
      THEN Finish(s1, UnknownToolResult)
      ELSE IF s.toolName \notin TOOL_REGISTRY
      THEN Finish(s1, NotImplementedResult)
      ELSE IF toolArgs.isNull
      THEN Finish(s1, InvalidArgumentsResult)
      ELSE [s1 EXCEPT !.pc = "awaitTool"]

\* 'if (approvalResult.autoApproveSession && requiresApproval && !isDangerous)'
GrantForSession(s) ==
  IF /\ s.approvalResult.autoApproveSession
     /\ RequiresApproval(s.toolName)
     /\ ~IsDangerous(s.toolName)
  THEN EnableSessionAutoApproval(s)
  ELSE s

\* executeToolCall once approvalResult is known
AfterApproval(s) ==
  LET s1 == GrantForSession(s)
  IN  IF ~s1.approvalResult.approved THEN Finish(s1, CanceledResult) ELSE Dispatch(s1)

\* variant: without an approval callback the call is approved by default
Gate_ApprovesByDefault(s) ==
  IF NeedsApproval(s.toolName) /\ ~CanAutoApprove(s.toolName, s.options.sessionAutoApprove)
  THEN IF s.callbacks.onToolApproval
       THEN IF s.options.isInterrupted
            THEN Finish(s, InterruptedResult)
            ELSE [Emit(s, Ev("onToolApproval", s.toolName, "", NoResult))
                    EXCEPT !.pc = "awaitApproval"]
       ELSE Dispatch(s)
  ELSE Dispatch(s)

\* executeToolCall from the approval decision on
Gate(s) ==
  IF NeedsApproval(s.toolName) /\ ~CanAutoApprove(s.toolName, s.options.sessionAutoApprove)
  THEN IF s.callbacks.onToolApproval
       THEN IF s.options.isInterrupted
            THEN Finish(s, InterruptedResult)
            ELSE [Emit(s, Ev("onToolApproval", s.toolName, "", NoResult))
                    EXCEPT !.pc = "awaitApproval"]
       ELSE AfterApproval([s EXCEPT !.approvalResult = NoApproval])
  ELSE Dispatch(s)

\* executeToolCall from its entry: the name, the arguments, onToolStart, the
\* read-before-edit check
ExecStart(s) ==
  LET call == s.tool_calls[s.idx]
      s0 == [s EXCEPT !.toolName = StripPrefix(call.name), !.options = MakeOptions(s),
                      !.approvalResult = NoApproval]
      s1 == Call(s0, s.callbacks.onToolStart,
                 Ev("onToolStart", s0.toolName, call.arguments.file_path, NoResult))
  IN  IF ~call.arguments.wellFormed
      THEN ToolReturned(s0, TruncatedResult)
      ELSE IF Throws(s, "onToolStart")
      THEN Caught(s1)
      ELSE IF s0.toolName = Name("edit_file") /\ call.arguments.isNull
      THEN Caught(s1)
      ELSE IF /\ s0.toolName = Name("edit_file")
              /\ call.arguments.file_path # NoPath
              /\ ~hasFileBeenReadBeforeEdit(s.sessionReadFilesTracker,
                                            call.arguments.file_path)
           THEN Finish(s1, ReadBeforeEditResult)
           ELSE Gate(s1)

\* the for loop over message.tool_calls, at call idx
ToolLoop(s) ==
  IF s.idx > Len(s.tool_calls)
  THEN LoopTop([s EXCEPT !.currentIteration = @ + 1, !.tool_calls = << >>, !.idx = 0])
  ELSE IF s.isInterrupted
       THEN Leave([s EXCEPT !.currentAbortController = "null"], "return", "interrupted")
       ELSE ExecStart(s)

\* variant: the assistant message lists the calls last to first
CallIds_Reversed(calls) == [k \in 1..Len(calls) |-> calls[Len(calls) + 1 - k].id]

\* the tool_calls of the assistant message, as far as the log keeps them:
\* the ids, in order
CallIds(calls) == [k \in 1..Len(calls) |-> calls[k].id]

\* variant: the final answer is shown to the user but not kept in the log
OnResponse_AnswerNotLogged(s, r) ==
  LET s1 == Call([s EXCEPT !.currentAbortController = "settled"],
                 r.usage /\ s.callbacks.onApiUsage, Ev0("onApiUsage"))
  IN  IF r.has_tool_calls
      THEN LET s2 == Call(s1, r.content # "" /\ s.callbacks.onThinkingText,
                          Ev("onThinkingText", NoName, r.content, NoResult))
               s3 == Push(s2, Msg("assistant", r.content, CallIds(r.tool_calls), 0, NoResult))
           IN  ToolLoop([s3 EXCEPT !.tool_calls = r.tool_calls, !.idx = 1])
      ELSE LET s2 == Call(s1, s.callbacks.onFinalMessage,
                          Ev("onFinalMessage", NoName, r.content, NoResult))
           IN  Leave([s2 EXCEPT !.currentAbortController = "null"], "return", "final")

\* variant: usage is forwarded for final answers only
OnResponse_UsageOfAnswersOnly(s, r) ==
  LET s1 == Call([s EXCEPT !.currentAbortController = "settled"],
                 r.usage /\ ~r.has_tool_calls /\ s.callbacks.onApiUsage, Ev0("onApiUsage"))
  IN  IF r.has_tool_calls
      THEN LET s2 == Call(s1, r.content # "" /\ s.callbacks.onThinkingText,
                          Ev("onThinkingText", NoName, r.content, NoResult))
               s3 == Push(s2, Msg("assistant", r.content, CallIds(r.tool_calls), 0, NoResult))
           IN  ToolLoop([s3 EXCEPT !.tool_calls = r.tool_calls, !.idx = 1])
      ELSE LET s2 == Call(s1, s.callbacks.onFinalMessage,
                          Ev("onFinalMessage", NoName, r.content, NoResult))
               s3 == Push(s2, Msg("assistant", r.content, << >>, 0, NoResult))
           IN  Leave([s3 EXCEPT !.currentAbortController = "null"], "return", "final")

\* chat() when the completion request has succeeded with response r
OnResponse(s, r) ==
  LET s1 == Call([s EXCEPT !.currentAbortController = "settled"],
                 r.usage /\ s.callbacks.onApiUsage, Ev0("onApiUsage"))
  IN  IF r.has_tool_calls
      THEN LET s2 == Call(s1, r.content # "" /\ s.callbacks.onThinkingText,
                          Ev("onThinkingText", NoName, r.content, NoResult))
               s3 == Push(s2, Msg("assistant", r.content, CallIds(r.tool_calls), 0, NoResult))
           IN  ToolLoop([s3 EXCEPT !.tool_calls = r.tool_calls, !.idx = 1])
      ELSE LET s2 == Call(s1, s.callbacks.onFinalMessage, Ev("onFinalMessage", NoName, r.content, NoResult))
               s3 == Push(s2, Msg("assistant", r.content, << >>, 0, NoResult))
           IN  Leave([s3 EXCEPT !.currentAbortController = "null"], "return", "final")

\* variant: status 401 is handled like any other failure
OnFailure_NoFatalStatus(s, status) ==
  LET s1 == [s EXCEPT !.currentAbortController = "null"]
  IN  IF s.callbacks.onError
      THEN [Emit(s1, Ev0("onError")) EXCEPT !.pc = "awaitError"]
      ELSE LoopTop([Push(s1, SystemMsg("Previous API request failed"))
                      EXCEPT !.currentIteration = @ + 1])

\* variant: the retry of a caller without onError does not use up an iteration
OnFailure_RetryUncounted(s, status) ==
  LET s1 == [s EXCEPT !.currentAbortController = "null"]
  IN  IF status = 401
      THEN Leave(s1, "throw", "401")
      ELSE IF s.callbacks.onError
           THEN [Emit(s1, Ev0("onError")) EXCEPT !.pc = "awaitError"]
           ELSE LoopTop(Push(s1, SystemMsg("Previous API request failed")))

\* the catch block of the iteration loop for an error that is no abort
OnFailure(s, status) ==
  LET s1 == [s EXCEPT !.currentAbortController = "null"]
  IN  IF status = 401
      THEN Leave(s1, "throw", "401")
      ELSE IF s.callbacks.onError
           THEN [Emit(s1, Ev0("onError")) EXCEPT !.pc = "awaitError"]
           ELSE LoopTop([Push(s1, SystemMsg("Previous API request failed"))
                           EXCEPT !.currentIteration = @ + 1])

\* the catch block for the abort error
OnAbort(s) == Leave([s EXCEPT !.currentAbortController = "null"], "return", "aborted")

(***************************************************************************)
(* The initial state: the agent as its constructor leaves it.              *)
(***************************************************************************)
InitWith(configs, faults, credentials, menu, maxToolCalls, maxFailures, longRun, maxLog) ==
  /\ model = "m1"
  /\ messages = << SystemMsg(buildDefaultSystemMessage(model)) >>
  /\ sessionAutoApprove = FALSE
  /\ isInterrupted = FALSE
  /\ currentAbortController = "null"
  /\ client = FALSE
  /\ callbacks \in configs
  /\ pc = "idle"
  /\ currentIteration = 0
  /\ tool_calls = << >>
  /\ idx = 0
  /\ toolName = NoName
  /\ options = NoOptions
  /\ approvalResult = NoApproval
  \* registry.ts wires its set into the validators when it is loaded
  /\ sessionReadFilesTracker = [wired |-> TRUE, paths |-> {}]
  /\ credential \in credentials
  /\ \E faulty \in faults :
       scenario = [toolCalls |-> maxToolCalls, failures |-> maxFailures,
                   longRun |-> longRun, faulty |-> faulty,
                   menu |-> menu, maxLog |-> maxLog]
  /\ issued = 0
  /\ failures = 0
  /\ fired = << >>
  /\ granted = FALSE
  /\ isProcessing = FALSE
  /\ isSessionAutoApprovalEnabled = FALSE
  /\ activeTaskSession = NoSession
  /\ taskResult = NoTaskResult

Init == InitWith(CallbackConfigs, { NoFaults }, { "none", "env" }, ToolCallMenu, MaxToolCalls, MaxFailures, FALSE, MaxLog)

(***************************************************************************)
(* The public operations of Agent.                                         *)
(***************************************************************************)
\* variant: the user message is recorded before the credential is looked for
Chat_RecordsFirst ==
  /\ pc = "idle"
  /\ Len(messages) < MaxLog
  /\ LET s0 == Push(Begin([Cur EXCEPT !.isInterrupted = FALSE], "chat", ""), UserMsg)
     IN  IF ~client /\ credential = "none"
         THEN Becomes(Leave(s0, "throw", "noApiKey"))
         ELSE Becomes(LoopTop([s0 EXCEPT !.client = TRUE, !.currentIteration = 0]))

\* chat(userInput): the caller starts a chat only when none is in flight
Chat ==
  /\ pc = "idle"
  /\ Len(messages) < MaxLog
  /\ LET s0 == Begin([Cur EXCEPT !.isInterrupted = FALSE], "chat", "")
     IN  IF ~client /\ credential = "none"
         THEN Becomes(Leave(s0, "throw", "noApiKey"))
         ELSE Becomes(LoopTop([Push([s0 EXCEPT !.client = TRUE], UserMsg)
                                 EXCEPT !.currentIteration = 0]))

\* useAgent sendMessageToAgent(userInput): 'if (isProcessing) return', then
\* setIsProcessing(true) and agent.chat(userInput).  When an earlier chat() is
\* still suspended the new one starts all the same: it clears the flag,
\* appends the user message and issues its request on the same log; the model
\* does not follow the two invocations further (pc = "overlapped").
SendMessage ==
  /\ ~isProcessing
  /\ pc # "overlapped"
  /\ Len(messages) < MaxLog
  /\ LET s0 == Begin([Cur EXCEPT !.isInterrupted = FALSE, !.isProcessing = TRUE],
                     "sendMessage", "")
         s1 == Push([s0 EXCEPT !.client = TRUE], UserMsg)
     IN  IF ~client /\ credential = "none"
         THEN Becomes(Leave(s0, "throw", "noApiKey"))
         ELSE IF pc = "idle"
         THEN Becomes(LoopTop([s1 EXCEPT !.currentIteration = 0]))
         ELSE Becomes([Emit(s1, Ev0("request")) EXCEPT !.currentAbortController = "pending",
                                                      !.pc = "overlapped"])

\* variant: interrupt() leaves the request handle alone
Abort_Ignored(controller) == controller

\* if (this.currentAbortController) this.currentAbortController.abort()
Abort(controller) == IF controller # "null" THEN "aborted" ELSE controller

\* interrupt(): at any time, also while chat() is suspended
Interrupt ==
  /\ Len(messages) < MaxLog
  /\ LET s0 == Begin([Cur EXCEPT !.isInterrupted = TRUE], "interrupt", "")
         s1 == [s0 EXCEPT !.currentAbortController = Abort(@)]
     IN  Becomes(Push(s1, SystemMsg("User has interrupted the request.")))

\* useAgent interruptRequest(): agent.interrupt(), then setIsProcessing(false)
InterruptRequest ==
  /\ pc # "overlapped"
  /\ Len(messages) < MaxLog
  /\ LET s0 == Begin([Cur EXCEPT !.isInterrupted = TRUE, !.isProcessing = FALSE],
                     "interrupt", "")
         s1 == [s0 EXCEPT !.currentAbortController = Abort(@)]
     IN  Becomes(Push(s1, SystemMsg("User has interrupted the request.")))

\* variant: the filter keeps the first system message only
SystemOnly_FirstOnly(log) ==
  LET kept == SelectSeq(log, LAMBDA m : m.role = "system")
  IN  IF kept = << >> THEN kept ELSE << Head(kept) >>

\* this.messages.filter((msg) => msg.role === 'system')
SystemOnly(log) == SelectSeq(log, LAMBDA m : m.role = "system")

\* clearHistory(): a synchronous method the caller may invoke at any time,
\* also while chat() is suspended
ClearHistory ==
  /\ Becomes([Begin(Cur, "clearHistory", "") EXCEPT !.messages = SystemOnly(@)])

\* msg.content.includes('coding assistant'): the default prompt reads
\* 'a coding and everyday office work assistant' and does not include it
IncludesCodingAssistant(content) == content = "You are a coding assistant"

\* findIndex: the first index that satisfies the test, 0 when there is none
FindSystemMsgIndex(log) ==
  LET hits == { i \in 1..Len(log) :
                  log[i].role = "system" /\ IncludesCodingAssistant(log[i].content) }
  IN  IF hits = {} THEN 0 ELSE CHOOSE i \in hits : \A j \in hits : i <= j

\* setModel(m): a synchronous method the caller may invoke at any time
SetModel(m) ==
  /\ LET s0 == Begin([Cur EXCEPT !.model = m], "setModel", "")
         i == FindSystemMsgIndex(messages)
     IN  Becomes(IF i > 0
                 THEN [s0 EXCEPT !.messages[i].content = buildDefaultSystemMessage(m)]
                 ELSE s0)

\* setSessionAutoApprove(enabled): the caller's toggle, at any time
SetSessionAutoApprove(enabled) ==
  /\ enabled # sessionAutoApprove
  /\ sessionAutoApprove' = enabled
  /\ granted' = (granted /\ enabled)
  /\ UNCHANGED << messages, isInterrupted, currentAbortController, model, client,
                  callbacks, pc, currentIteration, tool_calls, idx, toolName, options,
                  approvalResult, sessionReadFilesTracker, credential, scenario,
                  issued, failures, fired, isProcessing,
                  isSessionAutoApprovalEnabled, activeTaskSession, taskResult >>

(***************************************************************************)
(* The awaited events that resume chat().                                  *)
(***************************************************************************)
\* the completion request succeeds with a final answer
CompletionAnswers(content, usage) ==
  /\ pc = "awaitCompletion"
  /\ currentAbortController = "pending"
  /\ LET r == [has_tool_calls |-> FALSE, tool_calls |-> << >>,
               content |-> content, usage |-> usage]
     IN  Becomes(OnResponse(Received(Cur, r), r))

\* the completion request succeeds with a batch of n tool calls
CompletionCallsTools(n, content, usage) ==
  /\ pc = "awaitCompletion"
  /\ currentAbortController = "pending"
  /\ issued + n <= scenario.toolCalls
  /\ Len(messages) < scenario.maxLog
  /\ \E batch \in Batches(issued, n, scenario.menu) :
       LET r == [has_tool_calls |-> TRUE, tool_calls |-> batch,
                 content |-> content, usage |-> usage]
       IN  Becomes(OnResponse(Received([Cur EXCEPT !.issued = @ + n], r), r))

\* the completion request fails with an HTTP status
CompletionFails(status) ==
  /\ pc = "awaitCompletion"
  /\ currentAbortController = "pending"
  /\ scenario.longRun \/ failures < scenario.failures
  /\ Becomes(OnFailure(Begin([Cur EXCEPT !.failures = IF scenario.longRun THEN @ ELSE @ + 1],
                              "failure", IF status = 401 THEN "401" ELSE "other"),
                       status))

\* the aborted completion request rejects with the abort error
CompletionAborted ==
  /\ pc = "awaitCompletion"
  /\ currentAbortController = "aborted"
  /\ Becomes(OnAbort(Begin(Cur, "aborted", "")))

\* the answer {approved: true, autoApproveSession: true} to the prompt for a
\* tool that is APPROVAL_REQUIRED and not DANGEROUS
Grants(answer, name) ==
  /\ answer.approved
  /\ answer.autoApproveSession
  /\ name \in APPROVAL_REQUIRED_TOOLS \ DANGEROUS_TOOLS

\* the approval callback resolves
ApprovalResolves(answer) ==
  /\ pc = "awaitApproval"
  /\ LET s0 == Begin([Cur EXCEPT !.granted = @ \/ Grants(answer, toolName)],
                     "approvalResolved",
                     IF answer.approved THEN "approved" ELSE "rejected")
     IN  Becomes(IF InterruptedAfterApproval(s0)
                 THEN Finish(s0, InterruptedResult)
                 ELSE AfterApproval([s0 EXCEPT !.approvalResult = answer]))

\* the approval callback throws, or the promise it returned rejects
ApprovalThrows ==
  /\ pc = "awaitApproval"
  /\ Throws(Cur, "onToolApproval")
  /\ Becomes(Caught(Begin(Cur, "approvalThrew", "")))

\* variant: readFile records the path before it knows whether the read works
TrackRead_AnyOutcome(s, success) ==
  IF s.toolName = Name("read_file")
  THEN [s EXCEPT !.sessionReadFilesTracker.paths =
                    @ \cup { Resolve(s.tool_calls[s.idx].arguments.file_path) }]
  ELSE s

\* files.ts readFile: a successful read records the resolved path
TrackRead(s, success) ==
  IF s.toolName = Name("read_file") /\ success
  THEN [s EXCEPT !.sessionReadFilesTracker.paths =
                    @ \cup { Resolve(s.tool_calls[s.idx].arguments.file_path) }]
  ELSE s

\* the tool implementation returns its result
ToolCompletes(success) ==
  /\ pc = "awaitTool"
  /\ LET s0 == TrackRead(Begin(Cur, "toolResolved", IF success THEN "success" ELSE "failure"),
                          success)
     IN  Becomes(Finish(s0, Result(success, FALSE,
                                   IF success THEN "none" ELSE "Error: tool failed")))

\* the tool implementation throws: the catch block of executeTool answers
ToolThrows(typeError) ==
  /\ pc = "awaitTool"
  /\ LET s0 == Begin(Cur, "toolThrew", IF typeError THEN "TypeError" ELSE "Error")
     IN  Becomes(Finish(s0, IF typeError THEN InvalidArgumentsResult
                            ELSE UnexpectedErrorResult))

\* variant: a retry the user asks for does not use up an iteration
OnErrorResolves_RetryUncounted(shouldRetry) ==
  /\ pc = "awaitError"
  /\ LET s0 == Begin(Cur, "errorResolved", IF shouldRetry THEN "retry" ELSE "cancel")
     IN  Becomes(IF shouldRetry
                 THEN LoopTop(s0)
                 ELSE Leave(Push(s0, SystemMsg("Request failed. User chose not to retry.")),
                            "return", "notRetried"))

\* variant: the failure is recorded in the log also when the user retries
OnErrorResolves_RecordsFailure(shouldRetry) ==
  /\ pc = "awaitError"
  /\ LET s0 == Push(Begin(Cur, "errorResolved", IF shouldRetry THEN "retry" ELSE "cancel"),
                    SystemMsg("Previous API request failed"))
     IN  Becomes(IF shouldRetry
                 THEN LoopTop([s0 EXCEPT !.currentIteration = @ + 1])
                 ELSE Leave(s0, "return", "notRetried"))

\* the onError callback resolves: retry or not
OnErrorResolves(shouldRetry) ==
  /\ pc = "awaitError"
  /\ LET s0 == Begin(Cur, "errorResolved", IF shouldRetry THEN "retry" ELSE "cancel")
     IN  Becomes(IF shouldRetry
                 THEN LoopTop([s0 EXCEPT !.currentIteration = @ + 1])
                 ELSE Leave(Push(s0, SystemMsg("Request failed. User chose not to retry.")),
                            "return", "notRetried"))

\* the onMaxIterations callback resolves: continue or not
OnMaxIterationsResolves(shouldContinue) ==
  /\ pc = "awaitMaxIterations"
  /\ LET s0 == Begin(Cur, "maxIterationsResolved",
                     IF shouldContinue THEN "continue" ELSE "stop")
     IN  Becomes(IF shouldContinue
                 THEN LoopTop([s0 EXCEPT !.currentIteration = 0])
                 ELSE Leave(s0, "return", "maxIterations"))

Turn ==
  \/ Chat
  \/ Interrupt
  \/ \E c \in AnswerContents, u \in BOOLEAN : CompletionAnswers(c, u)
  \/ \E n \in 0..MaxBatch, c \in ToolTurnContents, u \in BOOLEAN :
       CompletionCallsTools(n, c, u)
  \/ CompletionAborted
  \/ \E a \in ApprovalAnswers : ApprovalResolves(a)
  \/ \E ok \in BOOLEAN : ToolCompletes(ok)

Failure ==
  \/ \E st \in { 401, 500 } : CompletionFails(st)
  \/ \E r \in BOOLEAN : OnErrorResolves(r)

Next ==
  \/ Turn
  \/ Failure
  \/ \E b \in BOOLEAN : SetSessionAutoApprove(b)

Spec == Init /\ [][Next]_vars

\* the session with its log operations: history clear and model switch
SessionInit == InitWith({ Wired(TRUE) }, { NoFaults }, { "env" }, ShortMenu, SessionToolCalls, 0, FALSE, MaxLog)

SessionNext ==
  \/ Turn
  \/ ClearHistory
  \/ SetSessionAutoApprove(TRUE)
  \/ \E m \in Models : SetModel(m)

SessionSpec == SessionInit /\ [][SessionNext]_vars

\* the session as the useAgent hook drives it: chat() is started by
\* sendMessageToAgent and interrupted by interruptRequest
HookInit == InitWith({ Wired(TRUE) }, { NoFaults }, { "env" }, ShortMenu, MaxToolCalls, 0, FALSE, MaxLog)

HookNext ==
  \/ SendMessage
  \/ InterruptRequest
  \/ \E c \in AnswerContents, u \in BOOLEAN : CompletionAnswers(c, u)
  \/ \E n \in 1..MaxBatch, u \in BOOLEAN : CompletionCallsTools(n, "", u)
  \/ CompletionAborted
  \/ \E answer \in ApprovalAnswers : ApprovalResolves(answer)
  \/ \E success \in BOOLEAN : ToolCompletes(success)

HookSpec == HookInit /\ [][HookNext]_vars

\* PendingToolApproval: the options the prompt offers are Yes, Yes-and-do-not-
\* ask-again (for a tool that is not DANGEROUS) and No
UiAnswers(name) ==
  { answer \in ApprovalAnswers :
      answer.autoApproveSession => (answer.approved /\ name \notin DANGEROUS_TOOLS) }

\* useAgent approveToolExecution(approved, autoApproveSession): the resolve
\* handler of the pending approval sets the hook's flag when the answer asks
\* for it, and then resolves the promise the executor awaits
ApproveToolExecution(answer) ==
  /\ pc = "awaitApproval"
  /\ answer \in UiAnswers(toolName)
  /\ LET s0 == Begin([Cur EXCEPT !.granted = @ \/ Grants(answer, toolName),
                                 !.isSessionAutoApprovalEnabled =
                                     @ \/ answer.autoApproveSession],
                     "approvalResolved",
                     IF answer.approved THEN "approved" ELSE "rejected")
     IN  Becomes(IF InterruptedAfterApproval(s0)
                 THEN Finish(s0, InterruptedResult)
                 ELSE AfterApproval([s0 EXCEPT !.approvalResult = answer]))

\* useAgent toggleAutoApprove(): the negation of the hook's flag is stored in
\* the hook and handed to agent.setSessionAutoApprove
ToggleAutoApprove ==
  /\ isSessionAutoApprovalEnabled' = ~isSessionAutoApprovalEnabled
  /\ sessionAutoApprove' = ~isSessionAutoApprovalEnabled
  /\ granted' = (granted /\ ~isSessionAutoApprovalEnabled)
  /\ UNCHANGED << messages, isInterrupted, currentAbortController, model, client,
                  callbacks, pc, currentIteration, tool_calls, idx, toolName, options,
                  approvalResult, sessionReadFilesTracker, credential, scenario,
                  issued, failures, fired, isProcessing, activeTaskSession,
                  taskResult >>

\* the session with the approval prompt and the auto-approve toggle of the UI:
\* the hook starts chat(), answers the prompts, toggles and clears
\* the tools the model calls there: one that needs approval and may be granted
\* for the session, one that is dangerous
ApprovalMenu ==
  { [name |-> Name("create_file"),        arguments |-> Args(TRUE, "b.txt")],
    [name |-> Name("execute_command"),    arguments |-> Args(TRUE, NoPath)] }

ApprovalUiInit ==
  InitWith({ Wired(TRUE) }, { NoFaults }, { "env" }, ApprovalMenu, MaxToolCalls, 0, FALSE, MaxLog)

ApprovalUiNext ==
  \/ SendMessage
  \/ \E c \in AnswerContents, u \in BOOLEAN : CompletionAnswers(c, u)
  \/ \E n \in 1..MaxBatch, u \in BOOLEAN : CompletionCallsTools(n, "", u)
  \/ \E answer \in ApprovalAnswers : ApproveToolExecution(answer)
  \/ \E success \in BOOLEAN : ToolCompletes(success)
  \/ ToggleAutoApprove
  \/ ClearHistory

ApprovalUiSpec == ApprovalUiInit /\ [][ApprovalUiNext]_vars

(***************************************************************************)
(* tasks.ts: the task list of the session.                                 *)
(***************************************************************************)
\* the longest list of tasks, and of updates, one call carries
MaxTasks == 2
MaxUpdates == 2

\* ['pending', 'in_progress', 'completed']
TaskStatuses == { "pending", "in_progress", "completed" }

\* the tasks a call of create_tasks may carry: "" is a field that is absent,
\* 'done' a status that is not one of the three
TaskInputs ==
  { [id |-> i, description |-> d, status |-> st, notes |-> "", updated_at |-> "none"] :
      i \in { "1", "2", "" }, d \in { "d", "" }, st \in { "", "pending", "done" } }

\* the updates a call of update_tasks may carry
TaskUpdates ==
  { [id |-> i, status |-> st, notes |-> n] :
      i \in { "1", "2", "9", "" }, st \in { "in_progress", "completed", "done", "" },
      n \in { "", "n" } }

ListsOf(S, n) == UNION { [1..k -> S] : k \in 0..n }

\* createToolResponse(success, ..., error)
TaskResponse(tool, error) == [tool |-> tool, success |-> error = "", error |-> error]

\* createTasks, the validation loop: the tasks with their default status, or
\* the error of the first task that does not pass
RECURSIVE ValidateTasks(_, _)
ValidateTasks(tasks, i) ==
  IF i > Len(tasks) THEN [tasks |-> tasks, error |-> ""]
  ELSE LET task == tasks[i]
           status == IF task.status = "" THEN "pending" ELSE task.status
       IN  IF task.id = "" \/ task.description = ""
           THEN [tasks |-> tasks, error |-> "missing required fields (id, description)"]
           ELSE IF status \notin TaskStatuses
           THEN [tasks |-> tasks, error |-> "Invalid status"]
           ELSE ValidateTasks([tasks EXCEPT ![i].status = status], i + 1)

\* the first task of the list with this id, 0 when there is none
FindTask(tasks, id) ==
  LET hits == { i \in 1..Len(tasks) : tasks[i].id = id }
  IN  IF hits = {} THEN 0 ELSE CHOOSE i \in hits : \A j \in hits : i <= j

\* task.status = update.status, task.notes = update.notes when there are
\* notes, task.updated_at = now: written to the stored task itself
WriteTask(tasks, i, update) ==
  [tasks EXCEPT ![i].status = update.status,
                ![i].notes = IF update.notes # "" THEN update.notes ELSE @,
                ![i].updated_at = "stamp"]

\* updateTasks, 'for (const update of taskUpdates)': the stored tasks as the
\* loop leaves them, with the error of the update that made it return
RECURSIVE UpdateLoop(_, _)
UpdateLoop(tasks, taskUpdates) ==
  IF taskUpdates = << >> THEN [tasks |-> tasks, error |-> ""]
  ELSE LET update == Head(taskUpdates)
           i == FindTask(tasks, update.id)
       IN  IF update.id = "" \/ update.status = ""
           THEN [tasks |-> tasks, error |-> "missing required fields (id, status)"]
           ELSE IF update.status \notin TaskStatuses
           THEN [tasks |-> tasks, error |-> "Invalid status"]
           ELSE IF i = 0
           THEN [tasks |-> tasks, error |-> "not found"]
           ELSE UpdateLoop(WriteTask(tasks, i, update), Tail(taskUpdates))

\* the calls of tasks.ts touch nothing of the agent
AgentUntouched ==
  UNCHANGED << messages, sessionAutoApprove, isInterrupted, currentAbortController,
               model, client, callbacks, pc, currentIteration, tool_calls, idx,
               toolName, options, approvalResult, sessionReadFilesTracker,
               credential, scenario, issued, failures, fired, granted,
               isProcessing, isSessionAutoApprovalEnabled >>

\* createTasks(userQuery, tasks)
CreateTasks(tasks) ==
  /\ LET r == ValidateTasks(tasks, 1)
     IN  /\ taskResult' = TaskResponse("create_tasks", r.error)
         /\ activeTaskSession' = IF r.error = ""
                                 THEN [exists |-> TRUE, tasks |-> r.tasks]
                                 ELSE activeTaskSession
  /\ AgentUntouched

\* updateTasks(taskUpdates)
UpdateTasks(taskUpdates) ==
  /\ IF ~activeTaskSession.exists
     THEN /\ taskResult' = TaskResponse("update_tasks", "No task list exists")
          /\ activeTaskSession' = activeTaskSession
     ELSE LET r == UpdateLoop(activeTaskSession.tasks, taskUpdates)
          IN  /\ taskResult' = TaskResponse("update_tasks", r.error)
              /\ activeTaskSession' = [activeTaskSession EXCEPT !.tasks = r.tasks]
  /\ AgentUntouched

\* the task tools alone: lists are created and updated in any order
TasksInit ==
  InitWith({ Wired(TRUE) }, { NoFaults }, { "env" }, ShortMenu, 0, 0, FALSE, MaxLog)

TasksNext ==
  \/ \E tasks \in ListsOf(TaskInputs, MaxTasks) : CreateTasks(tasks)
  \/ \E taskUpdates \in ListsOf(TaskUpdates, MaxUpdates) : UpdateTasks(taskUpdates)

TasksSpec == TasksInit /\ [][TasksNext]_vars

\* the turn of a model that calls names the registry does not hold and sends
\* arguments the tools cannot use
RegistryMenu ==
  ShortMenu \cup { [name |-> Name("toString"),  arguments |-> Args(TRUE, NoPath)],
                   [name |-> Name("browse"),    arguments |-> Args(TRUE, NoPath)],
                   [name |-> Name("read_file"), arguments |-> NullArgs],
                   [name |-> Name("edit_file"), arguments |-> NullArgs] }

RegistryInit ==
  InitWith({ Wired(TRUE) }, { NoFaults }, { "env" }, RegistryMenu, MaxToolCalls, 0, FALSE, MaxLog)

RegistryNext ==
  \/ Chat
  \/ \E c \in AnswerContents, u \in BOOLEAN : CompletionAnswers(c, u)
  \/ \E n \in 1..MaxBatch, u \in BOOLEAN : CompletionCallsTools(n, "", u)
  \/ \E answer \in ApprovalAnswers : ApprovalResolves(answer)
  \/ \E success \in BOOLEAN : ToolCompletes(success)
  \/ \E typeError \in BOOLEAN : ToolThrows(typeError)

RegistrySpec == RegistryInit /\ [][RegistryNext]_vars

\* the turn of a caller whose tool callbacks may throw
FaultyMenu ==
  ShortMenu \cup { [name |-> Name("edit_file"), arguments |-> Args(TRUE, "a.txt")],
                   [name |-> Name("read_file"), arguments |-> Args(FALSE, NoPath)],
                   [name |-> Name("browse"), arguments |-> Args(TRUE, NoPath)] }

FaultyInit ==
  InitWith(CallbackConfigs, Faults, { "env" }, FaultyMenu, MaxToolCalls, 0, FALSE, MaxLog)

FaultyNext ==
  \/ Turn
  \/ ApprovalThrows

FaultySpec == FaultyInit /\ [][FaultyNext]_vars

\* the long turn: the endpoint may fail often enough to reach the iteration limit
LongRunInit == InitWith(CallbackConfigs, { NoFaults }, { "env" }, ShortMenu, MaxToolCalls, 0, TRUE, MaxLog)

LongRunNext ==
  \/ Turn
  \/ Failure
  \/ \E c \in BOOLEAN : OnMaxIterationsResolves(c)

LongRunSpec == LongRunInit /\ [][LongRunNext]_vars

\* the long turn under the assumption that whatever chat() awaits resolves:
\* the completion request, the tool, the approval, the onError decision and
\* the onMaxIterations decision, and that a caller who is asked again and
\* again whether to go on past the limit says no at some point
LiveLog == 4
LiveInit == InitWith(CallbackConfigs, { NoFaults }, { "env" }, ShortMenu, SessionToolCalls, 0, TRUE, LiveLog)

CompletionResolves ==
  \/ CompletionAnswers("text", FALSE)
  \/ \E n \in 0..SessionToolCalls : CompletionCallsTools(n, "", FALSE)
  \/ \E st \in { 401, 500 } : CompletionFails(st)
  \/ CompletionAborted

ToolResolves == \E ok \in BOOLEAN : ToolCompletes(ok)
ApprovalAnswered == \E a \in ApprovalAnswers : ApprovalResolves(a)
ErrorDecided == \E r \in BOOLEAN : OnErrorResolves(r)
LimitDecided == \E c \in BOOLEAN : OnMaxIterationsResolves(c)

LiveNext ==
  \/ Chat
  \/ Interrupt
  \/ CompletionResolves
  \/ ToolResolves
  \/ ApprovalAnswered
  \/ ErrorDecided
  \/ LimitDecided

LiveSpec ==
  /\ LiveInit
  /\ [][LiveNext]_vars
  /\ WF_vars(CompletionResolves)
  /\ WF_vars(ToolResolves)
  /\ WF_vars(ApprovalAnswered)
  /\ WF_vars(ErrorDecided)
  /\ WF_vars(LimitDecided)
  /\ SF_vars(OnMaxIterationsResolves(FALSE))

\* the turn that only calls tools: every response carries one call of a safe
\* tool, which succeeds; nobody interrupts and no request fails
ToolTurnMenu ==
  { [name |-> Name("read_file"), arguments |-> Args(TRUE, "a.txt")] }

ToolTurnCalls == maxToolIterations + TurnsPastLimit
ToolTurnLog == 2 * ToolTurnCalls + 3

ToolTurnInit ==
  InitWith(CallbackConfigs, { NoFaults }, { "env" }, ToolTurnMenu, ToolTurnCalls, 0, FALSE, ToolTurnLog)

ToolTurnNext ==
  \/ Chat
  \/ \E c \in AnswerContents, u \in BOOLEAN : CompletionAnswers(c, u)
  \/ \E u \in BOOLEAN : CompletionCallsTools(1, "", u)
  \/ ToolCompletes(TRUE)
  \/ \E c \in BOOLEAN : OnMaxIterationsResolves(c)

ToolTurnSpec == ToolTurnInit /\ [][ToolTurnNext]_vars


(***************************************************************************)
(* Properties.  They read the program's state and 'fired', the ordered     *)
(* record of what the last handler did.                                    *)
(***************************************************************************)
Classified == APPROVAL_REQUIRED_TOOLS \cup DANGEROUS_TOOLS
AutoApprovable == APPROVAL_REQUIRED_TOOLS \ DANGEROUS_TOOLS

\* the handler that ran last was resumed by event e
ResumedBy(e) == fired # << >> /\ fired[1].e = e

\* the last handler did something of kind e
Did(e) == \E k \in DOMAIN fired : fired[k].e = e

Times(e) == Cardinality({ k \in DOMAIN fired : fired[k].e = e })

LastDone == fired[Len(fired)]

\* the positions at which the last handler appended to the log
Pushes == { k \in DOMAIN fired : fired[k].e = "push" }
LastPush == fired[CHOOSE k \in Pushes : \A j \in Pushes : j <= k]

\* C1: a tool whose normalized name is APPROVAL_REQUIRED or DANGEROUS is handed
\* to the registry only if, for that same call, the approval callback resolved
\* with approved = true, or the tool is APPROVAL_REQUIRED and not DANGEROUS and
\* session auto-approve was on in the options the call was evaluated with.
C1_ApprovalGate ==
  /\ (pc = "awaitTool" /\ toolName \in Classified)
       => \/ approvalResult.approved
          \/ toolName \in AutoApprovable /\ options.sessionAutoApprove
  /\ \A k \in DOMAIN fired :
       (fired[k].e = "executeTool" /\ fired[k].name \in Classified)
         => /\ k = Len(fired)
            /\ pc = "awaitTool"
            /\ toolName = fired[k].name

\* an approval-required tool is dispatched on session auto-approve alone
C1_Witness ==
  /\ pc = "awaitTool"
  /\ toolName \in AutoApprovable
  /\ ~approvalResult.approved
  /\ options.sessionAutoApprove
  /\ LastDone.e = "executeTool"

\* C2: for a DANGEROUS tool session auto-approve never stands in for the
\* prompt: with an approval callback wired, the call that has been announced
\* goes to the approval callback next, whatever session auto-approve is, and
\* is dispatched only once that callback has approved it.
C2_DangerousAlwaysPrompts ==
  /\ \A k \in DOMAIN fired :
       (fired[k].e = "onToolStart" /\ fired[k].name \in DANGEROUS_TOOLS
          /\ callbacks.onToolApproval)
         => /\ k + 1 = Len(fired)
            /\ fired[k + 1].e = "onToolApproval"
            /\ fired[k + 1].name = fired[k].name
            /\ pc = "awaitApproval"
  /\ (pc = "awaitTool" /\ toolName \in DANGEROUS_TOOLS) => approvalResult.approved

\* a dangerous tool is dispatched, after its prompt, with session auto-approve on
C2_Witness ==
  /\ pc = "awaitTool"
  /\ toolName \in DANGEROUS_TOOLS
  /\ options.sessionAutoApprove
  /\ approvalResult.approved
  /\ ResumedBy("approvalResolved")

\* C3: a tool call whose normalized name is neither APPROVAL_REQUIRED nor
\* DANGEROUS (a SAFE tool or an unclassified name) never reaches the approval
\* callback: once announced it goes straight to the registry.
C3_UnclassifiedNeverPrompts ==
  /\ pc = "awaitApproval" => toolName \in Classified
  /\ \A k \in DOMAIN fired :
       /\ fired[k].e = "onToolApproval" => fired[k].name \in Classified
       /\ (fired[k].e = "onToolStart" /\ fired[k].name \notin Classified)
            => /\ k < Len(fired)
               /\ fired[k + 1].e = "executeTool"
               /\ fired[k + 1].name = fired[k].name

\* a safe tool and an unregistered name are dispatched unprompted, with session
\* auto-approve off
C3_Witness ==
  /\ ~sessionAutoApprove
  /\ ~options.sessionAutoApprove
  /\ pc = "awaitTool"
  /\ toolName \in SAFE_TOOLS
  /\ \E k \in DOMAIN fired :
       fired[k].e = "executeTool" /\ fired[k].name \notin TOOL_REGISTRY

\* C4: when the approval callback resolves with approved = false, the call's
\* result has success = false and userRejected = true, the call is not
\* dispatched, no later call of the batch is started (no onToolStart, no
\* prompt, no dispatch) and chat() returns without another completion request.
C4_RejectionEndsTurn ==
  (ResumedBy("approvalResolved") /\ fired[1].arg = "rejected")
    => /\ pc = "idle"
       /\ LastDone.e = "return"
       /\ ~Did("executeTool")
       /\ ~Did("onToolStart")
       /\ ~Did("onToolApproval")
       /\ ~Did("request")
       /\ \E k \in Pushes :
            /\ fired[k].arg = "tool"
            /\ ~fired[k].result.success
            /\ fired[k].result.userRejected
       /\ \A k \in Pushes :
            fired[k].arg = "tool" => fired[k].result.userRejected

\* the first call of a batch of two has been rejected
C4_Witness ==
  /\ ResumedBy("approvalResolved")
  /\ fired[1].arg = "rejected"
  /\ pc = "idle"
  /\ Len(messages) >= 3
  /\ messages[Len(messages) - 1].role = "tool"
  /\ messages[Len(messages) - 2].role = "assistant"
  /\ Len(messages[Len(messages) - 2].tool_calls) = 2

\* C5: once the prompt for an approval-required (not dangerous) tool has been
\* answered 'approved, and auto-approve for the session', no later
\* approval-required (not dangerous) call of the session is put to the approval
\* callback, until the caller switches session auto-approve off.
C5_SessionAutoApproveDurable ==
  granted => ~(pc = "awaitApproval" /\ toolName \in AutoApprovable)

\* C6: an interrupt() while a completion request is in flight aborts that
\* request, and the aborted request makes chat() return at once: no assistant
\* message, no onFinalMessage, no tool execution, no further request.
C6_InterruptInFlight ==
  /\ (pc = "awaitCompletion" /\ isInterrupted) => currentAbortController = "aborted"
  /\ ResumedBy("aborted")
       => /\ pc = "idle"
          /\ Len(fired) = 2
          /\ fired[2].e = "return"
          /\ messages[Len(messages)].role # "assistant"

\* chat() has returned on the aborted request
C6_Witness ==
  /\ ResumedBy("aborted")
  /\ pc = "idle"
  /\ isInterrupted

\* C7: when interrupt() was called while the approval callback was pending,
\* then whatever the callback resolves to, the tool is not dispatched, its
\* result is a user rejection, and the turn ends without running further tools
\* or issuing another completion request.
C7_InterruptDuringApproval ==
  (ResumedBy("approvalResolved") /\ isInterrupted)
    => /\ ~Did("executeTool")
       /\ ~Did("request")
       /\ pc = "idle"
       /\ \E k \in Pushes :
            /\ fired[k].arg = "tool"
            /\ ~fired[k].result.success
            /\ fired[k].result.userRejected

\* C8: an edit_file call on a path whose resolved form is not in the
\* read-tracking set gets a result with success = false, onToolEnd is fired
\* with that result right after the announcement, and neither the approval
\* callback nor the registry is reached for the call.
C8_ReadBeforeEdit ==
  \A k \in DOMAIN fired :
    (fired[k].e = "onToolStart" /\ fired[k].name = Name("edit_file")
       /\ fired[k].arg # NoPath
       /\ Resolve(fired[k].arg) \notin sessionReadFilesTracker.paths)
      => /\ k + 2 <= Len(fired)
         /\ fired[k + 1].e = "onToolEnd"
         /\ fired[k + 1].name = Name("edit_file")
         /\ ~fired[k + 1].result.success
         /\ fired[k + 2].e = "push"
         /\ fired[k + 2].arg = "tool"
         /\ ~fired[k + 2].result.success

\* an edit of a file that was not read has been turned down, in a session in
\* which another call has already run
C8_Witness ==
  \E k \in DOMAIN fired :
    /\ fired[k].e = "onToolStart"
    /\ fired[k].name = Name("edit_file")
    /\ Resolve(fired[k].arg) \notin sessionReadFilesTracker.paths
    /\ fired[k + 1].e = "onToolEnd"
    /\ k > 2

\* C9: every message with role tool carries the id of a tool_calls entry of the
\* assistant message that precedes it most closely in the log.
C9_ReferentialIntegrity ==
  \A i \in DOMAIN messages :
    messages[i].role = "tool"
      => \E j \in 1..(i - 1) :
           /\ messages[j].role = "assistant"
           /\ \A m \in (j + 1)..(i - 1) : messages[m].role # "assistant"
           /\ \E c \in DOMAIN messages[j].tool_calls :
                messages[j].tool_calls[c] = messages[i].tool_call_id

\* the log ends with an assistant message holding n >= 1 tool calls followed by
\* exactly n tool messages, one per call and in the order of the calls
TailIsBatch(log) ==
  \E j \in DOMAIN log :
    LET n == Len(log) - j
    IN  /\ log[j].role = "assistant"
        /\ n >= 1
        /\ Len(log[j].tool_calls) = n
        /\ \A k \in 1..n :
             /\ log[j + k].role = "tool"
             /\ log[j + k].tool_call_id = log[j].tool_calls[k]

\* the last handler pushed the result of the last call of a batch, nothing was
\* rejected and nobody interrupted
BatchCompleted ==
  /\ Pushes # {}
  /\ LastPush.arg = "tool"
  /\ ~LastPush.result.userRejected
  /\ ~isInterrupted
  /\ pc \notin { "awaitApproval", "awaitTool" }

\* C10 as stated: after a batch of N >= 1 tool calls that nobody rejected or
\* interrupted the log ends with one assistant message and its N tool
\* messages, and chat() issues exactly one more completion request next.
C10_BatchThenRequest ==
  BatchCompleted
    => /\ TailIsBatch(messages)
       /\ pc = "awaitCompletion"
       /\ Times("request") = 1
       /\ LastDone.e = "request"

\* C10, amended: ... and chat() issues exactly one more completion request
\* next, unless the batch was the 50th iteration of the turn: then
\* onMaxIterations is consulted instead, and chat() returns when it is not wired.
C10_BatchThenRequestOrLimit ==
  BatchCompleted
    => /\ TailIsBatch(messages)
       /\ \/ /\ pc = "awaitCompletion"
             /\ currentIteration < maxToolIterations
             /\ Times("request") = 1
             /\ LastDone.e = "request"
          \/ /\ pc = "awaitMaxIterations"
             /\ currentIteration = maxToolIterations
             /\ callbacks.onMaxIterations
             /\ ~Did("request")
             /\ LastDone.e = "onMaxIterations"
          \/ /\ pc = "idle"
             /\ ~callbacks.onMaxIterations
             /\ ~Did("request")
             /\ LastDone = Ev("return", NoName, "maxIterations", NoResult)

\* a batch of two calls has completed and the next request is on its way
C10_Witness ==
  /\ BatchCompleted
  /\ pc = "awaitCompletion"
  /\ Len(messages) >= 3
  /\ messages[Len(messages) - 2].role = "assistant"
  /\ Len(messages[Len(messages) - 2].tool_calls) = 2
\* the ids of the tool messages of log from position from on, in log order
RECURSIVE ToolIdsFrom(_, _)
ToolIdsFrom(log, from) ==
  IF from > Len(log) THEN << >>
  ELSE IF log[from].role = "assistant" THEN << >>
  ELSE IF log[from].role = "tool"
       THEN << log[from].tool_call_id >> \o ToolIdsFrom(log, from + 1)
       ELSE ToolIdsFrom(log, from + 1)

IsPrefix(a, b) == Len(a) <= Len(b) /\ \A k \in 1..Len(a) : a[k] = b[k]

\* the position of the last assistant message of the log, 0 when there is none
LastAssistant(log) ==
  LET at == { j \in DOMAIN log : log[j].role = "assistant" }
  IN  IF at = {} THEN 0 ELSE CHOOSE j \in at : \A i \in at : i <= j

\* C11: the calls of a batch run one after the other in the order issued: the
\* executor is entered for a call only when the tool messages of all earlier
\* calls of the batch, and no other, are in the log, and the tool messages
\* follow the assistant message in the order of its tool_calls.
C11_SequentialInOrder ==
  /\ \A j \in DOMAIN messages :
       messages[j].role = "assistant"
         => IsPrefix(ToolIdsFrom(messages, j + 1), messages[j].tool_calls)
  /\ pc \in { "awaitApproval", "awaitTool" }
       => /\ LastAssistant(messages) > 0
          /\ messages[LastAssistant(messages)].tool_calls = CallIds(tool_calls)
          /\ ToolIdsFrom(messages, LastAssistant(messages) + 1)
               = SubSeq(CallIds(tool_calls), 1, idx - 1)
  /\ \A j, k \in DOMAIN fired :
       (j < k /\ fired[j].e = "onToolStart" /\ fired[k].e = "onToolStart")
         => \E m \in (j + 1)..(k - 1) : fired[m].e = "push" /\ fired[m].arg = "tool"

\* the second call of a batch is at the registry, the first one's tool message
\* is the last message of the log
C11_Witness ==
  /\ pc = "awaitTool"
  /\ idx = 2
  /\ messages[Len(messages)].role = "tool"
  /\ messages[Len(messages)].tool_call_id = tool_calls[1].id
  /\ Times("onToolStart") = 1

\* the position of the last user message of the log, 0 when there is none
LastUser(log) ==
  LET at == { j \in DOMAIN log : log[j].role = "user" }
  IN  IF at = {} THEN 0 ELSE CHOOSE j \in at : \A i \in at : i <= j

\* the tool-call responses the current (or last) chat() has received
Turns ==
  Cardinality({ j \in DOMAIN messages :
                  /\ j > LastUser(messages)
                  /\ messages[j].role = "assistant"
                  /\ messages[j].tool_calls # << >> })

AtLimit == Turns > 0 /\ Turns % maxToolIterations = 0

\* C12: in a chat() whose responses all carry tool calls, onMaxIterations is
\* consulted exactly once after the 50th request and before a 51st; the 51st
\* request is issued only when the callback answers 'continue' (the counter
\* restarts at zero); when it answers 'stop', or is not wired, chat() returns
\* without a 51st request.
C12_IterationLimit ==
  /\ pc = "awaitMaxIterations"
       => /\ AtLimit
          /\ callbacks.onMaxIterations
          /\ currentIteration = maxToolIterations
          /\ Times("onMaxIterations") = 1
          /\ LastDone.e = "onMaxIterations"
          /\ ~Did("request")
  /\ pc = "awaitCompletion"
       => /\ currentIteration = Turns % maxToolIterations
          /\ Times("request") = 1
          /\ ~Did("onMaxIterations")
          /\ AtLimit => /\ callbacks.onMaxIterations
                        /\ ResumedBy("maxIterationsResolved")
                        /\ fired[1].arg = "continue"
  /\ (BatchCompleted /\ AtLimit)
       => /\ ~Did("request")
          /\ IF callbacks.onMaxIterations
             THEN pc = "awaitMaxIterations"
             ELSE pc = "idle" /\ LastDone = Ev("return", NoName, "maxIterations", NoResult)
  /\ (ResumedBy("maxIterationsResolved") /\ fired[1].arg = "stop")
       => /\ pc = "idle"
          /\ Len(fired) = 2
          /\ LastDone.e = "return"

\* the 51st request of a chat() is on its way: the callback has authorized it
C12_Witness ==
  /\ pc = "awaitCompletion"
  /\ Turns = maxToolIterations
  /\ currentIteration = 0

\* C13: a completion request that fails with status 401 ends chat() at once
\* with the authentication error: onError is not invoked, no further request
\* is issued and nothing is appended to the log.
C13_UnauthorizedIsFatal ==
  (ResumedBy("failure") /\ fired[1].arg = "401")
    => /\ pc = "idle"
       /\ Len(fired) = 2
       /\ fired[2] = Ev("throw", NoName, "401", NoResult)

\* a 401 has ended a chat() although the retry callback is wired
C13_Witness ==
  /\ ResumedBy("failure")
  /\ fired[1].arg = "401"
  /\ callbacks.onError
  /\ pc = "idle"

\* the note chat() leaves in the log when the user declines to retry
DeclinedNote == SystemMsg("Request failed. User chose not to retry.")

\* what the claim says of a declined retry: exactly one system message that
\* describes the failure is appended and chat() returns without a request
DeclinedRetry ==
  (ResumedBy("errorResolved") /\ fired[1].arg = "cancel")
    => /\ pc = "idle"
       /\ Len(fired) = 3
       /\ fired[2].e = "push" /\ fired[2].arg = "system"
       /\ fired[3] = Ev("return", NoName, "notRetried", NoResult)
       /\ messages[Len(messages)] = DeclinedNote

AnswerReceived == ResumedBy("response") /\ "tool_calls" \notin fired[1].carries

\* the events of the last handler once the usage notification is left out
AfterUsage == SelectSeq(fired, LAMBDA ev : ev.e # "onApiUsage")

C16_UsageFirstAndOnce ==
  /\ (ResumedBy("response") /\ "usage" \in fired[1].carries)
       => /\ Times("onApiUsage") = 1
          /\ fired[2].e = "onApiUsage"
  /\ ~ResumedBy("response") => ~Did("onApiUsage")

\* a tool-call response with usage and commentary has started its first tool
C16_Witness ==
  /\ ResumedBy("response")
  /\ fired[1].carries = { "tool_calls", "usage" }
  /\ Did("onThinkingText")
  /\ Did("onToolStart")
  /\ Did("push")

\* the entries of a log that have role system, in the order of the log
RECURSIVE SystemEntries(_)
SystemEntries(log) ==
  IF log = << >> THEN << >>
  ELSE IF Head(log).role = "system"
       THEN << Head(log) >> \o SystemEntries(Tail(log))
       ELSE SystemEntries(Tail(log))

\* C17: clearHistory() leaves in the log exactly the messages that had role
\* system, in their original order, and changes nothing else: the session
\* auto-approve flag, the credential and client, the model and the
\* read-tracking set are the same before and after.
C17_ClearHistoryFrame ==
  [][ClearHistory
       => /\ messages' = SystemEntries(messages)
          /\ sessionAutoApprove' = sessionAutoApprove
          /\ credential' = credential
          /\ client' = client
          /\ model' = model
          /\ sessionReadFilesTracker' = sessionReadFilesTracker
          /\ UNCHANGED << isInterrupted, currentAbortController, callbacks, pc,
                          currentIteration, tool_calls, idx, toolName, options,
                          approvalResult >>]_vars

\* the history has been cleared in a session that had switched the flag on,
\* switched the model, read a file and been interrupted: the system prompt and
\* the interruption note are what is left
C17_Witness ==
  /\ ResumedBy("clearHistory")
  /\ sessionAutoApprove
  /\ sessionReadFilesTracker.paths # {}
  /\ model # "m1"
  /\ client
  /\ Len(messages) >= 2

\* a ToolResult as the log keeps it: a boolean success, and an error text
\* whenever success is false
WellFormed(result) ==
  /\ result.success \in BOOLEAN
  /\ ~result.success => result.error # "none"

\* the tool messages the last handler appended
ToolPushes == { k \in Pushes : fired[k].arg = "tool" }

\* the last handler resumed chat() inside executeToolCall; it has left it
\* unless it went on from the approval to the tool and nothing else
ResumedInExecuteToolCall ==
  \/ ResumedBy("approvalThrew")
  \/ ResumedBy("toolResolved")
  \/ ResumedBy("approvalResolved") /\ ~(pc = "awaitTool" /\ LastDone.e = "executeTool"
                                                         /\ Pushes = {})

\* C18: executeToolCall never throws: on every exit path (unparsable
\* arguments, read-before-edit violation, rejected or interrupted approval, a
\* callback that throws or rejects, a failing tool) it returns a ToolResult
\* with a boolean success and an error text whenever success is false.  A
\* returned result is what chat() appends as the tool message; an exception
\* that escaped would reach the catch block of chat().
C18_NeverThrows ==
  /\ \A k \in ToolPushes : WellFormed(fired[k].result)
  /\ ResumedInExecuteToolCall
       => /\ ToolPushes # {}
          /\ \A k \in Pushes : \E j \in ToolPushes : j <= k
  /\ (/\ ResumedBy("response")
      /\ "tool_calls" \in fired[1].carries
      /\ LastAssistant(messages) > 0
      /\ messages[LastAssistant(messages)].tool_calls # << >>)
       => (ToolPushes # {} \/ pc \in { "awaitApproval", "awaitTool" })
  /\ ~ResumedBy("failure") => (~Did("onError") /\ ~Did("throw"))

\* the approval callback has thrown and the call has been answered with an
\* error result; the next call of the batch was started although onToolEnd
\* throws as well
C18_Witness ==
  /\ ResumedBy("approvalThrew")
  /\ fired[2] = Ev("push", NoName, "tool", Stringify(ExecutionErrorResult))
  /\ "onToolEnd" \in scenario.faulty
  /\ pc = "awaitTool"

\* the tool messages of the last handler that report a plain failure
PlainFailures ==
  { k \in ToolPushes : ~fired[k].result.success /\ ~fired[k].result.userRejected }

\* the batch under way: the tool_calls of the last assistant message, and how
\* many of them had been answered when the last handler made its push k
BatchSize == Len(messages[LastAssistant(messages)].tool_calls)
Answered(k) ==
  Len(ToolIdsFrom(messages, LastAssistant(messages) + 1))
    - Cardinality({ j \in ToolPushes : j > k })

\* chat() goes on to the next call of the batch: executeToolCall is entered
\* (onToolStart, or at once the result of unparsable arguments)
NextCallStarts(k) ==
  /\ k < Len(fired)
  /\ \/ fired[k + 1].e = "onToolStart"
     \/ fired[k + 1].e = "push" /\ fired[k + 1].arg = "tool"

DecisionResolved == ResumedBy("errorResolved") \/ ResumedBy("maxIterationsResolved")

\* C20: when interrupt() was called while chat() waited for the onError or the
\* onMaxIterations decision, chat() returns whatever the decision is (retry,
\* continue included): it issues no completion request, executes no tool and
\* appends no assistant message.  chat() returns in the handler of the
\* decision; a retry that uses up the 50th iteration puts the onMaxIterations
\* question first and chat() returns on its answer.
C20_InterruptedWhileDeciding ==
  (DecisionResolved /\ isInterrupted)
    => /\ ~Did("request")
       /\ ~Did("executeTool")
       /\ ~Did("onToolStart")
       /\ \A k \in Pushes : fired[k].arg # "assistant"
       /\ \/ pc = "idle" /\ LastDone.e = "return"
          \/ /\ pc = "awaitMaxIterations"
             /\ ResumedBy("errorResolved")
             /\ fired[1].arg = "retry"
             /\ currentIteration = maxToolIterations

\* the user chose to retry after interrupting, and chat() has returned
C20_Witness ==
  /\ ResumedBy("errorResolved")
  /\ fired[1].arg = "retry"
  /\ isInterrupted
  /\ pc = "idle"
  /\ fired[2] = Ev("return", NoName, "interrupted", NoResult)

\* C21: a cancellation leaves exactly one system note in the log: in a chat
\* turn during which interrupt() is called, from that call until chat()
\* returns the interruption note is the only message appended; chat() itself
\* appends nothing more (no tool message, no assistant message, no further
\* system note), so every step it takes with the flag set leaves the log as
\* it is.
C21_OneNotePerCancellation ==
  [][(pc # "idle" /\ isInterrupted /\ fired'[1].e # "interrupt")
       => messages' = messages]_vars

\* the tool names a model may send, without the prefix, and the arguments
\* that go with them
PlainNames == SAFE_TOOLS \cup APPROVAL_REQUIRED_TOOLS \cup DANGEROUS_TOOLS \cup { Name("browse") }
SomeArgs == { Args(TRUE, "a.txt"), Args(TRUE, "./a.txt"), Args(TRUE, NoPath), Args(FALSE, NoPath) }

\* what executeToolCall does, from a state in which a response may arrive,
\* with a single call of this name; the raw name stays in the batch chat() holds, so it is left
\* out of the comparison
Handled(name, arguments) ==
  LET call == [id |-> 1, name |-> name, arguments |-> arguments]
      after == ExecStart([Cur EXCEPT !.tool_calls = << call >>, !.idx = 1])
  IN  [after EXCEPT !.tool_calls = << >>]

\* C22: a call named 'repo_browser.X' is handled exactly like the call named
\* X: the same read-before-edit check, the same classification, the same
\* registry lookup, hence the same events, messages and next state; and the
\* prefixed dangerous tools go to the approval prompt whatever session
\* auto-approve is.
C22_PrefixIsStripped ==
  /\ (pc = "awaitCompletion" /\ currentAbortController = "pending")
       => \A name \in PlainNames, arguments \in SomeArgs :
            /\ Handled(<< "repo_browser" >> \o name, arguments) = Handled(name, arguments)
            /\ (name \in DANGEROUS_TOOLS /\ arguments.wellFormed /\ callbacks.onToolApproval)
                 => Handled(<< "repo_browser" >> \o name, arguments).pc = "awaitApproval"
  /\ \A k \in DOMAIN fired : fired[k].name # NoName => Head(fired[k].name) # "repo_browser"
  /\ (pc = "awaitTool" /\ StripPrefix(tool_calls[idx].name) \in DANGEROUS_TOOLS)
       => approvalResult.approved

\* the prefixed delete_file of the menu waits for its approval although
\* session auto-approve is on
C22_Witness ==
  /\ pc = "awaitApproval"
  /\ tool_calls[idx].name = Prefixed("delete_file")
  /\ toolName = Name("delete_file")
  /\ options.sessionAutoApprove

\* the position of the first system message of a log, 0 when there is none
FirstSystem(log) ==
  LET at == { j \in DOMAIN log : log[j].role = "system" }
  IN  IF at = {} THEN 0 ELSE CHOOSE j \in at : \A i \in at : j <= i

\* C23: after setModel(m), on an agent created with the default system
\* message, the first system message of the log is the default system message
\* built for m: it names m and no longer the previous model.
C23_SystemMessageFollowsModel ==
  ResumedBy("setModel")
    => /\ FirstSystem(messages) > 0
       /\ messages[FirstSystem(messages)].content = buildDefaultSystemMessage(model)

\* C24: at most one chat() is in flight per session: whatever the order of
\* sendMessage, interruptRequest and the answers to the prompts, a
\* sendMessage issued while an earlier agent.chat() has not returned is
\* rejected and never starts a second chat() on the same log.
C24_OneChatInFlight == pc # "overlapped"

\* C25: without a credential (none set, none in the environment, none in the
\* config file) chat() fails with the error that tells the user to log in,
\* before it touches the conversation: no user message is appended, no
\* request is issued, no callback is invoked.
C25_NoCredentialFailsFirst ==
  (ResumedBy("chat") /\ ~client /\ credential = "none")
    => /\ fired = << Ev("chat", NoName, "", NoResult),
                     Ev("throw", NoName, "noApiKey", NoResult) >>
       /\ pc = "idle"
       /\ \A k \in DOMAIN messages : messages[k].role = "system"

\* a chat() has failed for want of a credential
C25_Witness ==
  /\ ResumedBy("chat")
  /\ credential = "none"
  /\ LastDone = Ev("throw", NoName, "noApiKey", NoResult)

\* the same log but for the content of system messages
SameButSystemContent(before, after) ==
  /\ Len(after) = Len(before)
  /\ \A k \in DOMAIN before :
       \/ after[k] = before[k]
       \/ /\ before[k].role = "system"
          /\ after[k] = [before[k] EXCEPT !.content = after[k].content]

\* C26: the log is append-only except for model switch and history clear:
\* chat() and interrupt() only append at the end and never remove, reorder or
\* rewrite a message; setModel() may rewrite the content of a system message
\* and nothing else; only clearHistory() may remove messages.
C26_AppendOnly ==
  [][IF fired' = << >> THEN messages' = messages
     ELSE IF fired'[1].e = "setModel" THEN SameButSystemContent(messages, messages')
     ELSE IF fired'[1].e = "clearHistory" THEN TRUE
     ELSE IsPrefix(messages, messages')]_vars

\* the log has grown through a chat with a tool call and an interruption
\* after the model was switched
C26_Witness ==
  /\ model = "m2"
  /\ Len(messages) = MaxLog
  /\ \E k \in DOMAIN messages : messages[k].role = "tool"
  /\ \E k \in DOMAIN messages : messages[k].content = "User has interrupted the request."

\* the step is the return of the read_file implementation (which chat()
\* answers with a tool message)
ReadReturns ==
  /\ pc = "awaitTool"
  /\ toolName = Name("read_file")
  /\ fired' # << >>
  /\ fired'[1].e = "toolResolved"
  /\ Len(messages') > Len(messages)

\* the implementation returned success = true
ReadSucceeded == fired'[1].arg = "success"

\* C27: the set of read paths only grows: a path enters it in the step in
\* which read_file returns success = true, and it is the resolved path of that
\* call; a read_file that fails adds nothing; no other step (chat, interrupt,
\* clearHistory, setModel, any other tool) changes the set
C27_ReadsOnlyAdd ==
  [][LET before == sessionReadFilesTracker.paths
         after  == sessionReadFilesTracker'.paths
     IN  /\ before \subseteq after
         /\ after # before => ReadReturns /\ ReadSucceeded
         /\ ReadReturns =>
              after = IF ReadSucceeded
                      THEN before \cup { Resolve(tool_calls[idx].arguments.file_path) }
                      ELSE before]_vars

\* a file was read, then the history was cleared, the model switched and the
\* session interrupted: the path is still in the set
C27_Witness ==
  /\ sessionReadFilesTracker.paths = { "/cwd/a.txt" }
  /\ ResumedBy("interrupt")
  /\ model = "m2"
  /\ \A k \in DOMAIN messages : messages[k].role # "tool"

\* the registry holds no entry of this name
Absent(name) == name \notin TOOL_REGISTRY

\* executeTool returned this result to executeToolCall, which announces it
ExecuteToolReturned(k, result) ==
  /\ k < Len(fired)
  /\ fired[k + 1].e = "onToolEnd"
  /\ fired[k + 1].result = result

\* C28: executeTool answers a name absent from TOOL_REGISTRY with success =
\* false and 'Unknown tool' at once, without running an implementation; for a
\* registered name an exception while the arguments are extracted or while
\* the tool runs comes back as a result with success = false
C28_RegistryNeverThrows ==
  /\ \A k \in DOMAIN fired :
       fired[k].e = "executeTool" =>
         /\ Absent(fired[k].name) => ExecuteToolReturned(k, UnknownToolResult)
         /\ ~Absent(fired[k].name) /\ fired[k].arg = "null" =>
              /\ k < Len(fired)
              /\ fired[k + 1].e = "onToolEnd"
              /\ ~fired[k + 1].result.success
  /\ ResumedBy("toolThrew") =>
       /\ Len(fired) >= 2
       /\ fired[2].e = "onToolEnd"
       /\ ~fired[2].result.success

\* the events chat() adds when the response holds this one call
Added(call) ==
  LET after == Handled(call.name, call.arguments)
  IN  SubSeq(after.fired, Len(fired) + 1, Len(after.fired))

\* the first tool message among these events: the return of executeToolCall
Returned(added) ==
  { k \in DOMAIN added :
      /\ added[k].e = "push"
      /\ added[k].arg = "tool"
      /\ \A j \in 1..(k - 1) : added[j].e # "push" }

\* C29: with onToolStart wired, executeToolCall announces every call it is
\* handed, under the name without the prefix and before anything else, also
\* when the arguments cannot be parsed, when the read-before-edit check fails
\* and when the approval is rejected; unparsable arguments give a result with
\* success = false, and neither the approval callback nor the registry is
\* reached
C29_StartIsAnnounced ==
  callbacks.onToolStart =>
    /\ (pc = "awaitCompletion" /\ currentAbortController = "pending") =>
         \A call \in scenario.menu :
           LET added == Added(call)
           IN  /\ added # << >>
               /\ added[1].e = "onToolStart"
               /\ added[1].name = StripPrefix(call.name)
               /\ ~call.arguments.wellFormed =>
                    \E k \in Returned(added) :
                      /\ ~added[k].result.success
                      /\ \A j \in 1..(k - 1) :
                           added[j].e \notin { "onToolApproval", "executeTool" }
    /\ (pc = "awaitApproval" /\ Did("onToolApproval")) =>
         \E j \in DOMAIN fired :
           /\ fired[j].e = "onToolStart"
           /\ fired[j].name = toolName
           /\ \A i \in (j + 1)..Len(fired) : fired[i].e # "push"

\* events of the tool lifecycle, and the tool message that ends a call
Lifecycle(k) == fired[k].e \in { "onToolStart", "onToolEnd" }
Quiet(from, to) ==
  \A i \in from..to : ~Lifecycle(i) /\ fired[i].e # "push"

\* the last handler resumed a call that an earlier handler had announced
ResumedCall ==
  fired # << >>
    /\ fired[1].e \in { "approvalResolved", "approvalThrew", "toolResolved", "toolThrew" }

\* onToolEnd at k is followed at once by the tool message of the same result
EndsCall(k) ==
  /\ fired[k].e = "onToolEnd"
  /\ k < Len(fired)
  /\ fired[k + 1].e = "push"
  /\ fired[k + 1].arg = "tool"
  /\ fired[k + 1].result = Stringify(fired[k].result)

\* C30: with both callbacks wired, within one executeToolCall an onToolEnd
\* comes after the onToolStart of the same name, and every onToolStart is
\* followed by exactly one onToolEnd, which carries the result that
\* executeToolCall returns (and chat() logs), on every exit path, the
\* exception handler included; a call that waits for the approval or for the
\* tool has been announced and not yet ended
C30_LifecycleIsPaired ==
  (callbacks.onToolStart /\ callbacks.onToolEnd) =>
    /\ \A k \in DOMAIN fired :
         fired[k].e = "onToolEnd" =>
           /\ EndsCall(k)
           /\ \/ \E j \in 1..(k - 1) :
                   /\ fired[j].e = "onToolStart"
                   /\ fired[j].name = fired[k].name
                   /\ Quiet(j + 1, k - 1)
              \/ ResumedCall /\ Quiet(2, k - 1)
    /\ \A j \in DOMAIN fired :
         fired[j].e = "onToolStart" =>
           \/ \E k \in (j + 1)..Len(fired) : EndsCall(k) /\ Quiet(j + 1, k - 1)
           \/ pc \in { "awaitApproval", "awaitTool" } /\ Quiet(j + 1, Len(fired))
    /\ ResumedCall =>
         \/ \E k \in 2..Len(fired) : EndsCall(k) /\ Quiet(2, k - 1)
         \/ pc = "awaitTool" /\ Quiet(2, Len(fired))

\* the call gets as far as the approval decision: its arguments parse and it
\* passes the read-before-edit check
ReachesGate(call) ==
  /\ call.arguments.wellFormed
  /\ ~call.arguments.isNull
  /\ ~(/\ StripPrefix(call.name) = Name("edit_file")
       /\ call.arguments.file_path # NoPath
       /\ ~hasFileBeenReadBeforeEdit(sessionReadFilesTracker, call.arguments.file_path))

\* the call needs a decision: session auto-approve does not cover it
NeedsDecision(name, auto) == NeedsApproval(name) /\ ~CanAutoApprove(name, auto)

Answered_With(answer) == GrantForSession([Cur EXCEPT !.approvalResult = answer])

\* C32: the executor switches session auto-approve on only for an
\* APPROVAL_REQUIRED tool that is not DANGEROUS, and only on an answer that
\* has approved = true and autoApproveSession = true; an answer for a
\* DANGEROUS tool and an answer with approved = false leave the flag as it
\* was, whatever autoApproveSession they carry
C32_GrantNeedsApproval ==
  (pc = "awaitApproval" /\ ~isInterrupted) =>
    \A answer \in ApprovalAnswers :
      LET flag == Answered_With(answer).options.sessionAutoApprove
      IN  /\ flag # options.sessionAutoApprove =>
               /\ flag
               /\ toolName \in AutoApprovable
               /\ answer.approved
               /\ answer.autoApproveSession
          /\ (toolName \in DANGEROUS_TOOLS \/ ~answer.approved) =>
               flag = options.sessionAutoApprove

\* the tool call of this id, issued by the assistant message at j, has its
\* tool message later in the log
AnsweredInLog(log, j, id) ==
  \E i \in (j + 1)..Len(log) : log[i].role = "tool" /\ log[i].tool_call_id = id

\* C33: whenever chat() has returned or thrown, every tool call of every
\* assistant message of the log has a tool message with its id later in the
\* log, also after a rejection or an interruption in the middle of a batch
C33_NoDanglingToolCalls ==
  pc = "idle" =>
    \A j \in DOMAIN messages :
      messages[j].role = "assistant" =>
        \A c \in DOMAIN messages[j].tool_calls :
          AnsweredInLog(messages, j, messages[j].tool_calls[c])

\* the last handler received a response whose tool_calls list is there and
\* empty, and logged it
EmptyListReceived ==
  /\ ResumedBy("response")
  /\ "tool_calls" \in fired[1].carries
  /\ \E k \in Pushes : fired[k].arg = "assistant"
  /\ \A k \in DOMAIN fired : fired[k].e \notin { "onToolStart", "interrupt" }
  /\ \A k \in Pushes : fired[k].arg # "tool"
  /\ LastAssistant(messages) > 0
  /\ messages[LastAssistant(messages)].tool_calls = << >>

\* C34: a response whose tool_calls list is present but empty is the final
\* answer: onFinalMessage is invoked, one assistant message without tool
\* calls is appended, and chat() returns without another completion request
C34_EmptyListIsFinal ==
  EmptyListReceived
    => /\ pc = "idle"
       /\ Did("onFinalMessage")
       /\ ~Did("request")
       /\ ~Did("onThinkingText")
       /\ Cardinality(Pushes) = 1
       /\ LastDone.e = "return"

\* the failure notes and the tool-call responses the log holds since the last
\* user message: the iterations the chat() under way has used up
FailureNotes ==
  Cardinality({ j \in DOMAIN messages :
                  /\ j > LastUser(messages)
                  /\ messages[j] = SystemMsg("Previous API request failed") })
Responses ==
  Cardinality({ j \in DOMAIN messages :
                  j > LastUser(messages) /\ messages[j].role = "assistant" })

\* the last handler caught a failure that is neither a 401 nor an abort, for
\* a caller with neither onError nor onMaxIterations
HeadlessFailure ==
  /\ ResumedBy("failure")
  /\ fired[1].arg = "other"
  /\ ~callbacks.onError
  /\ ~callbacks.onMaxIterations

\* C35: without onError, a failure that is neither a 401 nor an abort appends
\* exactly one system message and is followed by a retry that uses up an
\* iteration; without onMaxIterations either, chat() returns when the 50
\* iterations are used up, so after exactly 50 requests when every request
\* fails
C35_HeadlessRetryIsBounded ==
  HeadlessFailure =>
    /\ Cardinality(Pushes) = 1
    /\ messages[Len(messages)] = SystemMsg("Previous API request failed")
    /\ FailureNotes + Responses <= maxToolIterations
    /\ IF FailureNotes + Responses < maxToolIterations
       THEN /\ pc = "awaitCompletion"
            /\ Times("request") = 1
            /\ LastDone.e = "request"
            /\ currentIteration = FailureNotes + Responses
       ELSE /\ pc = "idle"
            /\ ~Did("request")
            /\ LastDone = Ev("return", NoName, "maxIterations", NoResult)
    /\ (pc = "idle" /\ Responses = 0) => FailureNotes = maxToolIterations

\* chat() has returned after 50 requests that all failed
C35_Witness ==
  /\ HeadlessFailure
  /\ pc = "idle"
  /\ Responses = 0
  /\ FailureNotes = maxToolIterations
  /\ Len(messages) = maxToolIterations + 2

\* chat() is suspended at one of its awaits
InFlight == pc # "idle"

\* chat() has returned or thrown
Returned_OrThrew == pc = "idle"

\* C36: when everything chat() awaits resolves and onMaxIterations says
\* 'continue' only finitely often, every chat() call returns or throws: from
\* every state in which a call is suspended, the states right after an
\* interrupt() during the call among them, a state is reached in which the
\* call has returned or thrown
C36_ChatTerminates == InFlight ~> Returned_OrThrew

\* a call that was interrupted after it had gone on past the iteration limit
\* has returned
C36_Witness ==
  /\ pc = "idle"
  /\ isInterrupted
  /\ LastDone.e = "return"
  /\ \E j \in DOMAIN messages : messages[j] = SystemMsg("User has interrupted the request.")
  /\ callbacks.onMaxIterations
  /\ ResumedBy("maxIterationsResolved")

\* the step enters chat() (directly, or through sendMessageToAgent) and gets
\* past the credential check
ChatEntered ==
  /\ fired' # << >>
  /\ fired' # fired
  /\ fired'[1].e \in { "chat", "sendMessage" }
  /\ fired'[Len(fired')].e # "throw"

\* C37: chat() resets the interruption flag on entry, so that an interrupt()
\* issued while no call was in flight does not cancel the next call, which
\* issues its completion request; and while a call is in flight an
\* interruption that was raised is not cleared
C37_FlagResetOnEntryOnly ==
  [][/\ (pc = "idle" /\ ChatEntered) =>
          /\ ~isInterrupted'
          /\ pc' = "awaitCompletion"
          /\ currentAbortController' = "pending"
          /\ fired'[Len(fired')].e = "request"
     /\ (pc # "idle" /\ isInterrupted) => isInterrupted']_vars

\* C38: the auto-approve state the UI shows always equals the agent's: the
\* hook's isSessionAutoApprovalEnabled flag is true exactly when the agent's
\* session auto-approve flag, the one the next tool call is gated by, is true.
C38_IndicatorMatchesAgent == isSessionAutoApprovalEnabled = sessionAutoApprove

\* the step is a call of updateTasks that returns success = false: every step
\* of TasksSpec is a call, and the response names the tool that returned it
UpdateFails ==
  /\ taskResult'.tool = "update_tasks"
  /\ ~taskResult'.success

\* C39: update_tasks is all-or-nothing: when updateTasks returns success =
\* false, the stored task list is exactly what it was before the call, also
\* when earlier updates of the same call were valid.
C39_UpdateIsAllOrNothing ==
  [][UpdateFails => activeTaskSession' = activeTaskSession]_vars

====
